---------------------------- MODULE Spec2Model ----------------------------
(***************************************************************************)
(* The request dispatch pipeline of the HTTP client: the Interceptor       *)
(* Manager (lib/core/InterceptorManager.js), the Request Orchestrator      *)
(* (Axios.request), the Dispatch Sequencer (lib/core/dispatchRequest.js)   *)
(* and the Adapter Registry (lib/adapters/adapters.js).                    *)
(*                                                                         *)
(* JavaScript runs one job at a time.  An action of this module is one     *)
(* run-to-completion piece of the library's code: a public method call, or *)
(* one reaction job of a promise chain.  The only places where other code  *)
(* can run in between are the calls of user functions (interceptor         *)
(* handlers) and the job boundaries, and that is where the actions are cut.*)
(***************************************************************************)
EXTENDS Naturals, Sequences, FiniteSets

\* ------------------------------------------------------------------ bounds
\* use() calls made on the two Interceptor Managers in one behaviour
MaxUse == 2
\* use() calls made on the Interceptor Manager checked alone
MaxReg == 3
\* candidates in the list handed to getAdapter
MaxCand == 3

\* entries of a bag handed to set()
MaxBag == 1

VARIABLES
  handlers,    \* InterceptorManager.handlers of interceptors.request / .response
  nextUid,     \* history: use() calls made so far
  issued,      \* history: issued[u] is the manager and the index of the u-th use()
  pc,          \* where the request is
  path,        \* "sync" | "async" | "none"
  reqChain,    \* requestInterceptorChain, as pairs (one entry per pair)
  resChain,    \* responseInterceptorChain, as pairs
  chain,       \* the stages chained with promise.then, in order
  i,           \* stages of the current chain already run
  val,         \* newConfig (sync walk) / the settled state of the current promise
  config,      \* the merged config the request started with
  headers,     \* config.headers, a Header Container
  cancelled,   \* the cancel token / abort signal of config has been signalled
  adapterOut,  \* how the adapter's promise settled
  log,         \* history: what ran for this request, in order
  sent,        \* history: the config value dispatchRequest was called with
  ejected,     \* history: the use() calls whose index was handed to eject()
  prev,        \* history: summary of the previous request (parity runs only)
  cands,       \* getAdapter: the argument
  known,       \* getAdapter: knownAdapters of this build
  resolved,    \* getAdapter: its outcome
  hop          \* history: the last call on the Header Container, with the
               \* container before it and what the call returned

mgrVars == <<handlers, nextUid, issued, ejected>>
reqVars == <<pc, path, reqChain, resChain, chain, i, val, config, headers,
             cancelled, adapterOut, log, sent>>
adVars  == <<cands, resolved>>
vars    == <<handlers, nextUid, issued, ejected, pc, path, reqChain, resChain,
             chain, i, val, config, headers, cancelled, adapterOut, log, sent,
             prev, cands, known, resolved, hop>>

Managers == {"request", "response"}

\* ------------------------------------------------------ Interceptor Manager
\* A slot of handlers holds an entry or null.  uid names the use() call that
\* made the entry, fn the pair of functions it was given; rejected says whether
\* the second of them is a function or undefined.
Null == [uid |-> 0, fn |-> 0, rejected |-> FALSE, synchronous |-> FALSE,
         runWhen |-> "null"]

\* options of use(): absent, or {synchronous, runWhen}; a runWhen function is
\* a predicate of the config, here one that answers true or one that answers false
NoOptions == [given |-> FALSE, synchronous |-> FALSE, runWhen |-> "null"]

Options(sync, rw) == [given |-> TRUE, synchronous |-> sync, runWhen |-> rw]

\* this.handlers.push({fulfilled, rejected, synchronous, runWhen})
use(hs, uid, fn, rejected, options) ==
  Append(hs, [uid         |-> uid,
              fn          |-> fn,
              rejected    |-> rejected,
              synchronous |-> IF options.given THEN options.synchronous ELSE FALSE,
              runWhen     |-> IF options.given THEN options.runWhen ELSE "null"])

\* return this.handlers.length - 1  (index of the pushed entry, 0-based)
useIndex(hs) == Len(hs)

\* eject as a removal that shifts the later entries down
ejectSplice(hs, id) ==
  IF id >= 0 /\ id < Len(hs)
    THEN SubSeq(hs, 1, id) \o SubSeq(hs, id + 2, Len(hs))
    ELSE hs

\* if (this.handlers[id]) this.handlers[id] = null     (id is 0-based)
eject(hs, id) ==
  IF id >= 0 /\ id < Len(hs) /\ hs[id + 1] # Null
    THEN [hs EXCEPT ![id + 1] = Null]
    ELSE hs

\* if (this.handlers) this.handlers = []
clear(hs) == <<>>

\* utils.forEach(this.handlers, h => { if (h !== null) fn(h) }): the entries
\* fn is called with, in call order
RECURSIVE forEachFrom(_, _)
forEachFrom(hs, k) ==
  IF k > Len(hs) THEN <<>>
  ELSE IF hs[k] # Null THEN <<hs[k]>> \o forEachFrom(hs, k + 1)
  ELSE forEachFrom(hs, k + 1)

\* forEach without the h !== null test
forEachAll(hs) == hs

forEach(hs) == forEachFrom(hs, 1)


\* ---------------------------------------------------------- Adapter Registry
\* A candidate is a callable, one of the two sentinels, or a name.
Callable(s) == [t |-> "function", s |-> s]
SNull       == [t |-> "null", s |-> "null"]
SFalse      == [t |-> "false", s |-> "false"]
Name(s)     == [t |-> "name", s |-> s]
Undefined   == [t |-> "undefined", s |-> "undefined"]

\* String.prototype.toLowerCase on the names used here
toLowerCase(s) ==
  CASE s = "HTTP" -> "http"
    [] s = "Xhr"  -> "xhr"
    [] OTHER      -> s

\* what knownAdapters inherits from Object.prototype under a lower-case key
ObjectConstructor == [t |-> "function", s |-> "Object"]

ObjectPrototype == [t |-> "object", s |-> "Object.prototype"]

\* knownAdapters[name]: http and xhr are its own keys, and the object literal
\* inherits from Object.prototype
knownAdapter(kn, name) ==
  CASE name = "http"        -> kn.http
    [] name = "xhr"         -> kn.xhr
    [] name = "constructor" -> ObjectConstructor
    [] name = "__proto__"   -> ObjectPrototype
    [] OTHER                -> Undefined

\* utils.isFunction(adapter) || adapter === null || adapter === false
isResolvedHandle(adapter) == adapter.t \in {"function", "null", "false"}

\* truthiness of an adapter value
Truthy(adapter) == adapter.t \in {"function", "object"}

\* rejectedReasons[key] = state on an object: a key met again keeps its place
PutReason(reasons, key, state) ==
  IF \E k \in 1..Len(reasons) : reasons[k].id = key
    THEN [k \in 1..Len(reasons) |->
            IF reasons[k].id = key THEN [id |-> key, state |-> state] ELSE reasons[k]]
    ELSE Append(reasons, [id |-> key, state |-> state])

\* `adapter ${id} ` + (state === false ? ... : ...)
reasonText(r) ==
  [id |-> r.id,
   why |-> IF r.state.t = "false" THEN "is not supported by the environment"
                                  ELSE "is not available in the build"]

\* the throw at the end of getAdapter
notSupported(length, reasons) ==
  [t |-> "error", code |-> "ERR_NOT_SUPPORT",
   message |-> IF length > 0
                 THEN [text |-> "There is no suitable adapter to dispatch the request",
                       reasons |-> [k \in 1..Len(reasons) |-> reasonText(reasons[k])]]
                 ELSE [text |-> "There is no suitable adapter to dispatch the request as no adapter specified",
                       reasons |-> <<>>]]

unknownAdapter(id) ==
  [t |-> "error", code |-> "none",
   message |-> [text |-> "Unknown adapter", reasons |-> <<[id |-> id, why |-> "unknown"]>>]]

\* the for loop of getAdapter with a break on every resolved handle
RECURSIVE getAdapterLoopStop(_, _, _, _, _)
getAdapterLoopStop(kn, adapters, k, adapter, reasons) ==
  IF k > Len(adapters)
    THEN IF ~Truthy(adapter) THEN notSupported(Len(adapters), reasons)
                             ELSE [t |-> "adapter", adapter |-> adapter]
    ELSE LET nameOrAdapter == adapters[k]
             found == IF ~isResolvedHandle(nameOrAdapter)
                        THEN knownAdapter(kn, toLowerCase(nameOrAdapter.s))
                        ELSE nameOrAdapter
             key   == IF ~isResolvedHandle(nameOrAdapter)
                        THEN nameOrAdapter.s
                        ELSE IF k = 1 THEN "#0" ELSE IF k = 2 THEN "#1"
                        ELSE IF k = 3 THEN "#2" ELSE IF k = 4 THEN "#3" ELSE "#n"
         IN  IF ~isResolvedHandle(nameOrAdapter) /\ found = Undefined
               THEN unknownAdapter(nameOrAdapter.s)
             ELSE IF Truthy(found)
               THEN [t |-> "adapter", adapter |-> found]
             ELSE IF isResolvedHandle(nameOrAdapter)
               THEN notSupported(Len(adapters), PutReason(reasons, key, found))
             ELSE getAdapterLoopStop(kn, adapters, k + 1, found,
                                     PutReason(reasons, key, found))

\* the for loop of getAdapter from candidate k on (1-based; the source's i is k-1);
\* adapter is the value the loop variable holds so far
RECURSIVE getAdapterLoop(_, _, _, _, _)
getAdapterLoop(kn, adapters, k, adapter, reasons) ==
  IF k > Len(adapters)
    THEN IF ~Truthy(adapter) THEN notSupported(Len(adapters), reasons)
                             ELSE [t |-> "adapter", adapter |-> adapter]
    ELSE LET nameOrAdapter == adapters[k]
             found == IF ~isResolvedHandle(nameOrAdapter)
                        THEN knownAdapter(kn, toLowerCase(nameOrAdapter.s))
                        ELSE nameOrAdapter
             key   == IF ~isResolvedHandle(nameOrAdapter)
                        THEN nameOrAdapter.s
                        ELSE IF k = 1 THEN "#0" ELSE IF k = 2 THEN "#1"
                        ELSE IF k = 3 THEN "#2" ELSE IF k = 4 THEN "#3" ELSE "#n"
         IN  IF ~isResolvedHandle(nameOrAdapter) /\ found = Undefined
               THEN unknownAdapter(nameOrAdapter.s)
             ELSE IF Truthy(found)
               THEN [t |-> "adapter", adapter |-> found]
             ELSE getAdapterLoop(kn, adapters, k + 1, found, PutReason(reasons, key, found))

\* getAdapter(adapters), adapters already an array
getAdapter(kn, adapters) == getAdapterLoop(kn, adapters, 1, Undefined, <<>>)

\* ---------------------------------------------------------- Header Container
\* A container is the sequence of its own keys with their values, in insertion
\* order.  A header name is its lower-case form, the casing it was written in
\* and whether it was written with surrounding whitespace.
HName(base, form) == [base |-> base, form |-> form, pad |-> FALSE]

\* the same name with whitespace around it
Padded(header) == [header EXCEPT !.pad = TRUE]

\* String.prototype.trim on a name
trim(header) == [header EXCEPT !.pad = FALSE]

\* String.prototype.toLowerCase on a name
lowerCase(header) == [header EXCEPT !.form = "lower"]

\* normalizeHeader: String(header).trim().toLowerCase()
normalizeHeader(header) == lowerCase(trim(header))

\* normalizeValue: false, null and undefined stay, anything else becomes a
\* string; "num1" is the number 1
normalizeValue(value) ==
  IF value \in {"false", "null", "undefined"} THEN value
  ELSE IF value = "num1" THEN "1"
  ELSE value

\* formatHeader: trimmed, every word capitalised
formatHeader(header) == [trim(header) EXCEPT !.form = "title"]

\* utils.findKey(obj, key): the own key of obj that equals key when both are
\* lower-cased, looked for from the last key to the first; 0 when there is none
RECURSIVE findKeyFrom(_, _, _)
findKeyFrom(self, key, k) ==
  IF k = 0 THEN 0
  ELSE IF lowerCase(self[k].key) = lowerCase(key) THEN k
  ELSE findKeyFrom(self, key, k - 1)

findKey(self, key) == findKeyFrom(self, key, Len(self))

\* self[key] = value on an object: an own key keeps its place, a new one goes last
putKey(self, key, value) ==
  IF \E k \in 1..Len(self) : self[k].key = key
    THEN [k \in 1..Len(self) |->
            IF self[k].key = key THEN [key |-> key, value |-> value] ELSE self[k]]
    ELSE Append(self, [key |-> key, value |-> value])

\* self[key] on an object
valueOf(self, key) ==
  IF \E k \in 1..Len(self) : self[k].key = key
    THEN (CHOOSE e \in {self[k] : k \in 1..Len(self)} : e.key = key).value
    ELSE "undefined"

\* delete self[key]
deleteKey(self, key) == SelectSeq(self, LAMBDA e : e.key # key)

\* setHeader that always writes
setHeaderAlways(self, value, header, rewrite) ==
  LET key == findKey(self, normalizeHeader(header))
  IN  putKey(self, IF key = 0 THEN header ELSE self[key].key, normalizeValue(value))

\* setHeader(_value, _header, _rewrite) of AxiosHeaders.set; _rewrite is
\* "true", "false" or "undefined"; the value "false" is the boolean false
setHeader(self, value, header, rewrite) ==
  LET lHeader == normalizeHeader(header)
      key     == findKey(self, lHeader)
  IN  IF key = 0
        THEN putKey(self, header, normalizeValue(value))
      ELSE IF self[key].value = "undefined" \/ rewrite = "true"
              \/ (rewrite = "undefined" /\ self[key].value # "false")
        THEN putKey(self, self[key].key, normalizeValue(value))
      ELSE self

ContentType == HName("content-type", "title")

\* setContentType that passes no rewrite argument on
setContentTypeDefault(self, value, rewrite) ==
  setHeader(self, value, ContentType, "undefined")

\* the accessor built for Content-Type: this.set('Content-Type', value, rewrite)
setContentType(self, value, rewrite) == setHeader(self, value, ContentType, rewrite)

\* get that reads the own key it was given
getHeaderOwn(self, header) == valueOf(self, header)

\* get(header) without a parser
getHeader(self, header) ==
  LET key == findKey(self, normalizeHeader(header))
  IN  IF key = 0 THEN "undefined" ELSE self[key].value

\* set(header, valueOrRewrite, rewrite) with a string that is a valid header
\* name: header = header.trim(), then setHeader
set(self, header, valueOrRewrite, rewrite) ==
  setHeader(self, valueOrRewrite, trim(header), rewrite)

\* setHeaders(headers, _rewrite): utils.forEach over the entries of a plain
\* object or of another container, from entry k on
RECURSIVE setHeaders(_, _, _, _)
setHeaders(self, bag, k, rewrite) ==
  IF k > Len(bag) THEN self
  ELSE setHeaders(setHeader(self, bag[k].value, bag[k].key, rewrite), bag, k + 1, rewrite)

\* set(headers, rewrite) with a plain object or another container
setBag(self, bag, rewrite) == setHeaders(self, bag, 1, rewrite)

\* has(header) without a matcher
hasHeader(self, header) ==
  LET key == findKey(self, normalizeHeader(header))
  IN  key # 0 /\ self[key].value # "undefined"

\* delete(header) without a matcher: the container it leaves
deleteHeader(self, header) ==
  LET key == findKey(self, normalizeHeader(header))
  IN  IF key = 0 THEN self ELSE deleteKey(self, self[key].key)

\* clear() without a matcher
clearHeaders(self) == <<>>

\* the keys of an object, in order
keysOf(self) == [k \in 1..Len(self) |-> self[k].key]

\* normalize(format): utils.forEach over the keys the container had when the
\* call started, each value read when its turn comes; seen is the local
\* object headers
RECURSIVE normalizeFrom(_, _, _, _, _)
normalizeFrom(self, keys, k, seen, format) ==
  IF k > Len(keys) THEN self
  ELSE LET header == keys[k]
           value  == valueOf(self, header)
           key    == findKey(seen, header)
       IN  IF key # 0
             THEN normalizeFrom(
                    deleteKey(putKey(self, seen[key].key, normalizeValue(value)), header),
                    keys, k + 1, seen, format)
             ELSE LET normalized == IF format THEN formatHeader(header) ELSE trim(header)
                      kept == IF normalized # header THEN deleteKey(self, header)
                                                     ELSE self
                  IN  normalizeFrom(putKey(kept, normalized, normalizeValue(value)),
                                    keys, k + 1, putKey(seen, normalized, "true"), format)

normalize(self, format) == normalizeFrom(self, keysOf(self), 1, <<>>, format)

\* -------------------------------------------------------- Dispatch Sequencer
CanceledError == [t |-> "error", kind |-> "canceled", by |-> <<>>, response |-> "none"]

\* a CanceledError the adapter rejects with, with what it had received
AdapterCanceled ==
  [t |-> "error", kind |-> "canceled", by |-> <<"adapter">>, response |-> "raw"]

\* isCancel(value): value carries the cancel mark
isCancel(reason) == reason.t = "error" /\ reason.kind = "canceled"

\* CancelToken.throwIfRequested(): throws the token's reason, a CanceledError,
\* when cancellation was requested on the token
throwIfRequested(signalled) == signalled

\* throwIfCancellationRequested that looks at cancelToken only
throwIfTokenRequested(cfg, signalled) ==
  cfg.cancel = "token" /\ throwIfRequested(signalled)

\* throwIfCancellationRequested(config): whether it throws.  cfg.cancel says
\* which of cancelToken / signal the config carries; signalled says whether
\* that token has a reason / that signal is aborted.
throwIfCancellationRequested(cfg, signalled) ==
  \/ cfg.cancel = "token" /\ throwIfRequested(signalled)
  \/ cfg.cancel = "signal" /\ signalled

\* defaults.adapter
defaultAdapter == <<Name("xhr"), Name("http")>>

\* dispatchRequest that calls the adapter whatever getAdapter gave
dispatchRequestAnyway(cfg, cv, hdrs, signalled, kn) ==
  IF throwIfCancellationRequested(cfg, signalled)
    THEN [threw |-> TRUE, error |-> CanceledError, headers |-> hdrs,
          ran |-> <<"dispatchRequest">>]
    ELSE [threw |-> FALSE, error |-> CanceledError, headers |-> hdrs,
          ran |-> <<"dispatchRequest", "transformRequest", "getAdapter", "adapter">>]

\* dispatchRequest(config) up to the call of the adapter: what it leaves in
\* config.headers, what it ran, and the error it threw if it threw.
\* cfg is the request's option bag, cv the config value dispatch was handed.
dispatchRequest(cfg, cv, hdrs, signalled, kn) ==
  IF throwIfCancellationRequested(cfg, signalled)
    THEN [threw |-> TRUE, error |-> CanceledError, headers |-> hdrs,
          ran |-> <<"dispatchRequest">>]
  ELSE IF cfg.transformRequest = "throws"
    THEN [threw |-> TRUE,
          error |-> [t |-> "error", kind |-> "transform", by |-> <<>>, response |-> "none"],
          headers |-> hdrs,
          ran |-> <<"dispatchRequest", "transformRequest">>]
  ELSE LET h2 == IF cfg.method \in {"post", "put", "patch"}
                   THEN setContentType(hdrs, "application/x-www-form-urlencoded", "false")
                   ELSE hdrs
           got == getAdapter(kn, IF cfg.adapter = <<>> THEN defaultAdapter ELSE cfg.adapter)
       IN  IF got.t = "error"
             THEN [threw |-> TRUE,
                   error |-> [t |-> "error", kind |-> "adapter", by |-> <<got.code>>,
                              response |-> "none"],
                   headers |-> h2,
                   ran |-> <<"dispatchRequest", "transformRequest", "getAdapter">>]
             ELSE [threw |-> FALSE, error |-> CanceledError, headers |-> h2,
                   ran |-> <<"dispatchRequest", "transformRequest", "getAdapter", "adapter">>]

\* what the adapter's promise can settle with
Response(cv) == [t |-> "response", config |-> cv, data |-> "raw", by |-> <<>>]

TransportError(resp) == [t |-> "error", kind |-> "transport", by |-> <<>>, response |-> resp]

\* onAdapterResolution that does not look at the cancellation again
onAdapterResolutionUnchecked(cfg, response, signalled) ==
  [st |-> "ful", v |-> [response EXCEPT !.data = "transformed"],
   ran |-> <<"onAdapterResolution", "transformResponse">>]

\* onAdapterResolution(response): the settled state of dispatchRequest's promise
onAdapterResolution(cfg, response, signalled) ==
  IF throwIfCancellationRequested(cfg, signalled)
    THEN [st |-> "rej", v |-> CanceledError, ran |-> <<"onAdapterResolution">>]
    ELSE [st |-> "ful", v |-> [response EXCEPT !.data = "transformed"],
          ran |-> <<"onAdapterResolution", "transformResponse">>]

\* onAdapterRejection without the isCancel test
onAdapterRejectionAll(cfg, reason, signalled) ==
  IF throwIfCancellationRequested(cfg, signalled)
    THEN [st |-> "rej", v |-> CanceledError, ran |-> <<"onAdapterRejection">>]
  ELSE IF reason.response # "none"
    THEN [st |-> "rej", v |-> [reason EXCEPT !.response = "transformed"],
          ran |-> <<"onAdapterRejection", "transformResponse">>]
  ELSE [st |-> "rej", v |-> reason, ran |-> <<"onAdapterRejection">>]

\* onAdapterRejection(reason)
onAdapterRejection(cfg, reason, signalled) ==
  IF ~isCancel(reason)
    THEN IF throwIfCancellationRequested(cfg, signalled)
           THEN [st |-> "rej", v |-> CanceledError, ran |-> <<"onAdapterRejection">>]
         ELSE IF reason.response # "none"
           THEN [st |-> "rej", v |-> [reason EXCEPT !.response = "transformed"],
                 ran |-> <<"onAdapterRejection", "transformResponse">>]
         ELSE [st |-> "rej", v |-> reason, ran |-> <<"onAdapterRejection">>]
    ELSE [st |-> "rej", v |-> reason, ran |-> <<"onAdapterRejection">>]

\* ------------------------------------------------------- Request Orchestrator
Cfg(tr) == [t |-> "config", tr |-> tr]

Fulfilled(v) == [st |-> "ful", v |-> v]
Rejected(v)  == [st |-> "rej", v |-> v]

Thrown(tag) == [t |-> "error", kind |-> "thrown", by |-> tag, response |-> "none"]

\* onRejected.call(this, error) with onRejected undefined
TypeError(tag) == [t |-> "error", kind |-> "TypeError", by |-> tag, response |-> "none"]

\* typeof interceptor.runWhen === 'function' && interceptor.runWhen(config) === false
skipped(interceptor) == interceptor.runWhen = "false"

\* unshiftRequestInterceptors with push in place of unshift
RECURSIVE pushRequestInterceptors(_, _, _)
pushRequestInterceptors(vis, k, acc) ==
  IF k > Len(vis) THEN acc
  ELSE IF vis[k].runWhen = "false" THEN pushRequestInterceptors(vis, k + 1, acc)
  ELSE pushRequestInterceptors(vis, k + 1,
         [synchronous |-> acc.synchronous /\ vis[k].synchronous,
          chain       |-> Append(acc.chain, vis[k])])

\* unshiftRequestInterceptors that reads interceptor.synchronous before the
\* runWhen test
RECURSIVE unshiftRequestInterceptorsCounted(_, _, _)
unshiftRequestInterceptorsCounted(vis, k, acc) ==
  IF k > Len(vis) THEN acc
  ELSE IF skipped(vis[k])
    THEN unshiftRequestInterceptorsCounted(vis, k + 1,
           [acc EXCEPT !.synchronous = @ /\ vis[k].synchronous])
  ELSE unshiftRequestInterceptorsCounted(vis, k + 1,
         [synchronous |-> acc.synchronous /\ vis[k].synchronous,
          chain       |-> <<vis[k]>> \o acc.chain])

\* the forEach over interceptors.request with unshiftRequestInterceptors:
\* vis are the entries visited, acc the chain and the synchronous flag so far
RECURSIVE unshiftRequestInterceptors(_, _, _)
unshiftRequestInterceptors(vis, k, acc) ==
  IF k > Len(vis) THEN acc
  ELSE IF skipped(vis[k]) THEN unshiftRequestInterceptors(vis, k + 1, acc)
  ELSE unshiftRequestInterceptors(vis, k + 1,
         [synchronous |-> acc.synchronous /\ vis[k].synchronous,
          chain       |-> <<vis[k]>> \o acc.chain])

requestInterceptorChain(hs) ==
  unshiftRequestInterceptors(forEach(hs), 1, [synchronous |-> TRUE, chain |-> <<>>])

\* the response chain built with unshift
RECURSIVE unshiftResponseInterceptors(_, _, _)
unshiftResponseInterceptors(vis, k, acc) ==
  IF k > Len(vis) THEN acc
  ELSE unshiftResponseInterceptors(vis, k + 1, <<vis[k]>> \o acc)

\* the forEach over interceptors.response with pushResponseInterceptors
RECURSIVE pushResponseInterceptors(_, _, _)
pushResponseInterceptors(vis, k, acc) ==
  IF k > Len(vis) THEN acc
  ELSE pushResponseInterceptors(vis, k + 1, Append(acc, vis[k]))

responseInterceptorChain(hs) == pushResponseInterceptors(forEach(hs), 1, <<>>)

\* one promise.then(chain[i++], chain[i++]) per pair
Stage(kind, h) == [kind |-> kind, h |-> h]

Stages(kind, entries) == [k \in 1..Len(entries) |-> Stage(kind, entries[k])]

\* the chain without the request interceptors
asyncChainBare(req, res) ==
  <<Stage("dispatch", Null)>> \o Stages("response", res)

\* the chain with the request interceptors pushed after dispatchRequest
asyncChainPushed(req, res) ==
  <<Stage("dispatch", Null)>> \o Stages("request", req) \o Stages("response", res)

\* the chain with dispatchRequest in it twice
asyncChainTwice(req, res) ==
  Stages("request", req) \o <<Stage("dispatch", Null), Stage("dispatch", Null)>>
    \o Stages("response", res)

\* chain = [dispatchRequest, undefined]; unshift the request chain; push the
\* response chain
asyncChain(req, res) ==
  Stages("request", req) \o <<Stage("dispatch", Null)>> \o Stages("response", res)

\* what a fulfilled handler returns: the config, or the response, it was given
\* with its own mark added
Marked(stage, v) ==
  IF stage.kind = "request"
    THEN IF v.t = "config" THEN [v EXCEPT !.tr = Append(v.tr, <<"f", stage.h.fn>>)]
         ELSE Cfg(<<<<"f", stage.h.fn>>>>)
    ELSE IF v.t = "response" THEN [v EXCEPT !.by = Append(v.by, <<"f", stage.h.fn>>)]
         ELSE [t |-> "response", config |-> Cfg(<<>>), data |-> "none",
               by |-> <<<<"f", stage.h.fn>>>>]

\* what a rejected handler that recovers returns
Recovered(stage) ==
  IF stage.kind = "request"
    THEN Cfg(<<<<"r", stage.h.fn>>>>)
    ELSE [t |-> "response", config |-> Cfg(<<>>), data |-> "none",
          by |-> <<<<"r", stage.h.fn>>>>]

\* an entry of log: what ran, for a handler the use() call it belongs to and
\* whether it returned or threw
Event(e, h, o) == [e |-> e, uid |-> h.uid, fn |-> h.fn, o |-> o]

Events(names) == [k \in 1..Len(names) |-> Event(names[k], Null, "")]

\* the Header Container request() builds with AxiosHeaders.concat
initialHeaders(cfg) ==
  IF cfg.contentType = "undefined" THEN <<>>
  ELSE <<[key |-> ContentType, value |-> cfg.contentType]>>

InFlight == pc \in {"walk", "chain", "adapter", "reaction"}

NoValue == [t |-> "none"]

\* a call on the Header Container: the method, its arguments and what it returned
Call(op, header, value, rewrite, result) ==
  [op |-> op, header |-> header, value |-> value, rewrite |-> rewrite,
   result |-> result]

NoName == HName("", "lower")

NoCall == Call("none", NoName, "undefined", "undefined", "undefined")

\* ------------------------------------------------------------------ actions
\* Manager calls are made before a request or while one is in flight (by a
\* handler, or by other code between two jobs).  A settled request is kept as
\* it ended until the next one starts.
CanCall == pc # "settled" /\ pc # "thrown"

\* interceptors[m].use(fulfilled, rejected, options); fn = 0 stands for a pair
\* of functions not registered before
Use(m, fn, rejected, options) ==
  /\ CanCall
  /\ handlers' = [handlers EXCEPT ![m] =
                    use(@, nextUid + 1, IF fn = 0 THEN nextUid + 1 ELSE fn,
                        rejected, options)]
  /\ nextUid' = nextUid + 1
  /\ issued' = Append(issued, [m |-> m, index |-> useIndex(handlers[m])])
  /\ UNCHANGED <<ejected, reqVars, prev, adVars, hop, known>>

\* interceptors[m].eject(id)
Eject(m, id) ==
  /\ CanCall
  /\ handlers' = [handlers EXCEPT ![m] = eject(@, id)]
  /\ ejected' = ejected \cup {u \in 1..nextUid : issued[u] = [m |-> m, index |-> id]}
  /\ UNCHANGED <<nextUid, issued, reqVars, prev, adVars, hop, known>>

\* interceptors[m].clear()
Clear(m) ==
  /\ CanCall
  /\ handlers' = [handlers EXCEPT ![m] = clear(@)]
  /\ UNCHANGED <<nextUid, issued, ejected, reqVars, prev, adVars, hop, known>>

\* the sync fast path without the try / catch return: the response
\* interceptors are chained on a rejected promise when dispatchRequest throws
SyncDispatchChained(cfg, cv, hdrs, lg, signalled, res) ==
  LET d == dispatchRequest(cfg, cv, hdrs, signalled, known)
  IN  /\ headers' = d.headers
      /\ log' = lg \o Events(d.ran)
      /\ sent' = cv
      /\ i' = 0
      /\ chain' = Stages("response", res)
      /\ IF d.threw
           THEN /\ pc' = IF res = <<>> THEN "settled" ELSE "chain"
                /\ val' = Rejected(d.error)
           ELSE /\ pc' = "adapter"
                /\ val' = Fulfilled(cv)

\* the sync fast path from `promise = dispatchRequest.call(this, newConfig)` to
\* the return: cv is newConfig, lg what ran so far
SyncDispatch(cfg, cv, hdrs, lg, signalled, res) ==
  LET d == dispatchRequest(cfg, cv, hdrs, signalled, known)
  IN  /\ headers' = d.headers
      /\ log' = lg \o Events(d.ran)
      /\ sent' = cv
      /\ i' = 0
      /\ IF d.threw
           THEN /\ pc' = "settled"
                /\ val' = Rejected(d.error)
                /\ chain' = <<>>
           ELSE /\ pc' = "adapter"
                /\ val' = Fulfilled(cv)
                /\ chain' = Stages("response", res)

\* log of a request whose token was signalled before request() was called
Started(signalled) == IF signalled THEN Events(<<"cancel">>) ELSE <<>>

\* request(config) up to the first call of an interceptor handler
request(cfg, signalled) ==
  /\ ~InFlight
  /\ signalled => cfg.cancel # "none"
  /\ LET req == requestInterceptorChain(handlers["request"])
         res == responseInterceptorChain(handlers["response"])
     IN  /\ reqChain' = req.chain
         /\ resChain' = res
         /\ IF ~req.synchronous
              THEN /\ path' = "async"
                   /\ chain' = asyncChain(req.chain, res)
                   /\ pc' = "chain"
                   /\ val' = Fulfilled(Cfg(<<>>))
                   /\ i' = 0 /\ log' = Started(signalled) /\ sent' = NoValue
                   /\ headers' = initialHeaders(cfg)
              ELSE /\ path' = "sync"
                   /\ IF req.chain = <<>>
                        THEN SyncDispatch(cfg, Cfg(<<>>), initialHeaders(cfg),
                                          Started(signalled), signalled, res)
                        ELSE /\ pc' = "walk"
                             /\ val' = Fulfilled(Cfg(<<>>))
                             /\ chain' = <<>>
                             /\ i' = 0 /\ log' = Started(signalled) /\ sent' = NoValue
                             /\ headers' = initialHeaders(cfg)
  /\ config' = cfg
  /\ cancelled' = signalled
  /\ adapterOut' = NoValue
  /\ UNCHANGED <<mgrVars, adVars, hop, known>>

\* one turn of the sync walk whose onFulfilled returns
WalkReturn ==
  /\ pc = "walk"
  /\ LET h  == reqChain[i + 1]
         nv == Marked(Stage("request", h), val.v)
         lg == Append(log, Event("request.fulfilled", h, "return"))
     IN  IF i + 1 < Len(reqChain)
           THEN /\ i' = i + 1
                /\ val' = Fulfilled(nv)
                /\ log' = lg
                /\ UNCHANGED <<pc, chain, headers, sent>>
           ELSE SyncDispatch(config, nv, headers, lg, cancelled, resChain)
  /\ UNCHANGED <<mgrVars, path, reqChain, resChain, config, cancelled, adapterOut,
                 prev, adVars, hop, known>>

\* one turn of the sync walk whose onFulfilled throws: onRejected.call(this,
\* error), then break; rejectedOutcome is what onRejected does
WalkThrow(rejectedOutcome) ==
  /\ pc = "walk"
  /\ LET h  == reqChain[i + 1]
         lg == Append(log, Event("request.fulfilled", h, "throw"))
     IN  IF ~h.rejected
           THEN /\ rejectedOutcome = "return"
                /\ pc' = "thrown"
                /\ val' = Rejected(TypeError(<<"r", h.fn>>))
                /\ log' = lg
                /\ UNCHANGED <<i, chain, headers, sent>>
         ELSE IF rejectedOutcome = "throw"
           THEN /\ pc' = "thrown"
                /\ val' = Rejected(Thrown(<<"r", h.fn>>))
                /\ log' = Append(lg, Event("request.rejected", h, "throw"))
                /\ UNCHANGED <<i, chain, headers, sent>>
         ELSE SyncDispatch(config, val.v, headers,
                           Append(lg, Event("request.rejected", h, "return")),
                           cancelled, resChain)
  /\ UNCHANGED <<mgrVars, path, reqChain, resChain, config, cancelled, adapterOut,
                 prev, adVars, hop, known>>

\* where a chain goes after stage i + 1
After == IF i + 1 < Len(chain) THEN "chain" ELSE "settled"

\* the reaction job as promise.then(fulfilled).catch(rejected) would run it: a
\* throw of the fulfilled handler goes to the rejected handler of the same pair
ChainFulfilledCaught(outcome) ==
  /\ pc = "chain"
  /\ chain[i + 1].kind # "dispatch"
  /\ val.st = "ful"
  /\ LET stage == chain[i + 1]
     IN  IF outcome = "return"
           THEN /\ val' = Fulfilled(Marked(stage, val.v))
                /\ log' = Append(log, Event(IF stage.kind = "request"
                                              THEN "request.fulfilled"
                                              ELSE "response.fulfilled", stage.h, outcome))
         ELSE IF stage.h.rejected
           THEN /\ val' = Fulfilled(Recovered(stage))
                /\ log' = log \o
                     <<Event(IF stage.kind = "request" THEN "request.fulfilled"
                             ELSE "response.fulfilled", stage.h, "throw"),
                       Event(IF stage.kind = "request" THEN "request.rejected"
                             ELSE "response.rejected", stage.h, "return")>>
         ELSE /\ val' = Rejected(Thrown(<<"f", stage.h.fn>>))
              /\ log' = Append(log, Event(IF stage.kind = "request"
                                            THEN "request.fulfilled"
                                            ELSE "response.fulfilled", stage.h, outcome))
  /\ i' = i + 1
  /\ pc' = After
  /\ UNCHANGED <<mgrVars, path, reqChain, resChain, chain, config, headers,
                 cancelled, adapterOut, sent, prev, adVars, hop, known>>

\* a reaction job of the chain: the promise before the stage fulfilled and the
\* stage's fulfilled handler is called
ChainFulfilled(outcome) ==
  /\ pc = "chain"
  /\ chain[i + 1].kind # "dispatch"
  /\ val.st = "ful"
  /\ LET stage == chain[i + 1]
     IN  /\ val' = IF outcome = "return"
                     THEN Fulfilled(Marked(stage, val.v))
                     ELSE Rejected(Thrown(<<"f", stage.h.fn>>))
         /\ log' = Append(log, Event(IF stage.kind = "request"
                                       THEN "request.fulfilled"
                                       ELSE "response.fulfilled", stage.h, outcome))
  /\ i' = i + 1
  /\ pc' = After
  /\ UNCHANGED <<mgrVars, path, reqChain, resChain, chain, config, headers,
                 cancelled, adapterOut, sent, prev, adVars, hop, known>>

\* a reaction job of the chain: the promise before the stage rejected and the
\* stage has a rejected handler
ChainRejected(outcome) ==
  /\ pc = "chain"
  /\ chain[i + 1].kind # "dispatch"
  /\ val.st = "rej"
  /\ chain[i + 1].h.rejected
  /\ LET stage == chain[i + 1]
     IN  /\ val' = IF outcome = "return"
                     THEN Fulfilled(Recovered(stage))
                     ELSE Rejected(Thrown(<<"r", stage.h.fn>>))
         /\ log' = Append(log, Event(IF stage.kind = "request"
                                       THEN "request.rejected"
                                       ELSE "response.rejected", stage.h, outcome))
  /\ i' = i + 1
  /\ pc' = After
  /\ UNCHANGED <<mgrVars, path, reqChain, resChain, chain, config, headers,
                 cancelled, adapterOut, sent, prev, adVars, hop, known>>

\* a reaction job of the chain with no handler for the settled state: the
\* rejection passes through then(f, undefined)
ChainPass ==
  /\ pc = "chain"
  /\ val.st = "rej"
  /\ \/ chain[i + 1].kind = "dispatch"
     \/ ~chain[i + 1].h.rejected
  /\ i' = i + 1
  /\ pc' = After
  /\ UNCHANGED <<mgrVars, path, reqChain, resChain, chain, val, config, headers,
                 cancelled, adapterOut, log, sent, prev, adVars, hop, known>>

\* the reaction job that calls dispatchRequest on the async chain path
ChainDispatch ==
  /\ pc = "chain"
  /\ chain[i + 1].kind = "dispatch"
  /\ val.st = "ful"
  /\ LET d == dispatchRequest(config, val.v, headers, cancelled, known)
     IN  /\ headers' = d.headers
         /\ log' = log \o Events(d.ran)
         /\ sent' = val.v
         /\ IF d.threw
              THEN /\ val' = Rejected(d.error)
                   /\ pc' = After
              ELSE /\ val' = val
                   /\ pc' = "adapter"
  /\ i' = i + 1
  /\ UNCHANGED <<mgrVars, path, reqChain, resChain, chain, config, cancelled,
                 adapterOut, prev, adVars, hop, known>>

\* the adapter settles its promise
AdapterSettle(out) ==
  /\ pc = "adapter"
  /\ isCancel(out) => cancelled
  /\ adapterOut' = out
  /\ pc' = "reaction"
  /\ log' = Append(log, Event("settle", Null, ""))
  /\ UNCHANGED <<mgrVars, path, reqChain, resChain, chain, i, val, config, headers,
                 cancelled, sent, prev, adVars, hop, known>>

\* the reaction job dispatchRequest chained on the adapter's promise
AdapterReaction ==
  /\ pc = "reaction"
  /\ LET r == IF adapterOut.t = "response"
                THEN onAdapterResolution(config, adapterOut, cancelled)
                ELSE onAdapterRejection(config, adapterOut, cancelled)
     IN  /\ val' = [st |-> r.st, v |-> r.v]
         /\ log' = log \o Events(r.ran)
  /\ pc' = IF i < Len(chain) THEN "chain" ELSE "settled"
  /\ UNCHANGED <<mgrVars, path, reqChain, resChain, chain, i, config, headers,
                 cancelled, adapterOut, sent, prev, adVars, hop, known>>

\* cancelToken's executor calls cancel() / the AbortController aborts
Cancel ==
  /\ InFlight
  /\ config.cancel # "none"
  /\ ~cancelled
  /\ cancelled' = TRUE
  /\ log' = Append(log, Event("cancel", Null, ""))
  /\ UNCHANGED <<mgrVars, pc, path, reqChain, resChain, chain, i, val, config,
                 headers, adapterOut, sent, prev, adVars, hop, known>>

\* ------------------------------------------------------------------- inputs
\* knownAdapters as the browser build, the node build and a build with neither
\* transport give it
Browser == [http |-> SNull, xhr |-> Callable("xhr")]
Node    == [http |-> Callable("http"), xhr |-> SFalse]
Bare    == [http |-> SNull, xhr |-> SFalse]

Builds == {Browser, Node, Bare}

Plain == [method |-> "get", contentType |-> "undefined", transformRequest |-> "ok",
          adapter |-> <<Callable("custom")>>, cancel |-> "none"]

Outcomes == {"return", "throw"}

\* ----------------------------------------------------------- specifications
InitManagers ==
  /\ handlers = [m \in Managers |-> <<>>]
  /\ nextUid = 0
  /\ issued = <<>>
  /\ ejected = {}

InitRequest ==
  /\ pc = "idle" /\ path = "none"
  /\ reqChain = <<>> /\ resChain = <<>> /\ chain = <<>>
  /\ i = 0
  /\ val = Fulfilled(NoValue)
  /\ config = Plain
  /\ headers = <<>>
  /\ cancelled = FALSE
  /\ adapterOut = NoValue
  /\ log = <<>>
  /\ sent = NoValue
  /\ prev = NoValue

InitAdapter ==
  /\ cands = [isArray |-> TRUE, items |-> <<>>]
  /\ resolved = NoValue
  /\ hop = NoCall

\* Spec: the orchestrator with its two Interceptor Managers, requests and
\* manager calls in any order.
Init ==
  /\ InitManagers
  /\ InitRequest
  /\ InitAdapter
  /\ known = Browser

UseRequest ==
  /\ nextUid < MaxUse
  /\ \E r \in BOOLEAN, o \in {NoOptions, Options(TRUE, "null")} : Use("request", 0, r, o)

UseResponse ==
  /\ nextUid < MaxUse
  /\ \E r \in BOOLEAN : Use("response", 0, r, NoOptions)

EjectAny == \E m \in Managers, id \in 0..MaxUse : Eject(m, id)

ClearAny == \E m \in Managers : Clear(m)

Request ==
  /\ request(Plain, FALSE)
  /\ UNCHANGED prev

WalkThrows == \E o \in Outcomes : WalkThrow(o)

StageFulfilled == \E o \in Outcomes : ChainFulfilled(o)

StageRejected == \E o \in Outcomes : ChainRejected(o)

Settle == \E out \in {Response(sent), TransportError("none")} : AdapterSettle(out)

Next ==
  \/ UseRequest
  \/ UseResponse
  \/ EjectAny
  \/ ClearAny
  \/ Request
  \/ WalkReturn
  \/ WalkThrows
  \/ StageFulfilled
  \/ StageRejected
  \/ ChainPass
  \/ ChainDispatch
  \/ Settle
  \/ AdapterReaction

Spec == Init /\ [][Next]_vars

\* SpecPath: request interceptors registered with every kind of options, some
\* ejected, then one request.
InitPath == Init

PathOptions ==
  {NoOptions} \cup {Options(sy, rw) : sy \in BOOLEAN, rw \in {"null", "true", "false"}}

PathUse ==
  /\ nextUid < MaxReg
  /\ pc = "idle"
  /\ \E o \in PathOptions : Use("request", 0, TRUE, o)

PathEject ==
  /\ pc = "idle"
  /\ \E id \in 0..(MaxReg - 1) : Eject("request", id)

PathRequest ==
  /\ pc = "idle"
  /\ request(Plain, FALSE)
  /\ UNCHANGED prev

NextPath ==
  \/ PathUse
  \/ PathEject
  \/ PathRequest
  \/ WalkReturn
  \/ WalkThrows
  \/ StageFulfilled
  \/ StageRejected
  \/ ChainPass
  \/ ChainDispatch
  \/ Settle
  \/ AdapterReaction

SpecPath == InitPath /\ [][NextPath]_vars

\* SpecIM: one Interceptor Manager under use, eject and clear.
InitIM == Init

IMUse ==
  /\ nextUid < MaxReg
  /\ \E r \in BOOLEAN, o \in {NoOptions, Options(TRUE, "null"), Options(TRUE, "false")} :
       Use("request", 0, r, o)

IMEject == \E id \in 0..(MaxReg + 1) : Eject("request", id)

IMClear == Clear("request")

NextIM ==
  \/ IMUse
  \/ IMEject
  \/ IMClear

SpecIM == InitIM /\ [][NextIM]_vars

\* SpecDispatch: dispatchRequest on both paths (no interceptor, or request
\* interceptors registered without options), every option bag that matters to
\* it, cancellation at any job boundary.
DispatchConfigs ==
  { [method |-> m, contentType |-> ct, transformRequest |-> tr, adapter |-> ad,
     cancel |-> c] :
      m \in {"get", "post"},
      ct \in {"undefined", "application/json", "false"},
      tr \in {"ok", "throws"},
      ad \in {<<>>, <<Name("bogus")>>, <<Callable("custom")>>},
      c \in {"none", "token", "signal"} }

InitDispatch ==
  /\ InitManagers
  /\ InitRequest
  /\ InitAdapter
  /\ known \in {Browser, Bare}

DUse ==
  /\ nextUid < MaxUse
  /\ pc = "idle"
  /\ Use("request", 0, FALSE, NoOptions)

DRequest ==
  /\ pc = "idle"
  /\ \E cfg \in DispatchConfigs, s \in BOOLEAN : request(cfg, s)
  /\ UNCHANGED prev

DSettle ==
  \E out \in {Response(sent), TransportError("none"), TransportError("raw"),
              AdapterCanceled} : AdapterSettle(out)

NextDispatch ==
  \/ DUse
  \/ DRequest
  \/ StageFulfilled
  \/ ChainPass
  \/ ChainDispatch
  \/ DSettle
  \/ AdapterReaction
  \/ Cancel

SpecDispatch == InitDispatch /\ [][NextDispatch]_vars

\* SpecSync: requests on the sync fast path, with synchronous request
\* interceptors and response interceptors, option bags that make
\* dispatchRequest throw or not, cancellation before or during the request.
SyncConfigs ==
  {cfg \in DispatchConfigs : cfg.method = "get" /\ cfg.contentType = "undefined"}

InitSync == InitDispatch

SyncUseRequest ==
  /\ nextUid < MaxUse
  /\ pc = "idle"
  /\ Use("request", 0, TRUE, Options(TRUE, "null"))

SyncUseResponse ==
  /\ nextUid < MaxUse
  /\ pc = "idle"
  /\ \E r \in BOOLEAN : Use("response", 0, r, NoOptions)

SyncRequest ==
  /\ pc = "idle"
  /\ \E cfg \in SyncConfigs, s \in BOOLEAN : request(cfg, s)
  /\ UNCHANGED prev

NextSync ==
  \/ SyncUseRequest
  \/ SyncUseResponse
  \/ SyncRequest
  \/ WalkReturn
  \/ WalkThrows
  \/ DSettle
  \/ AdapterReaction
  \/ StageFulfilled
  \/ StageRejected
  \/ ChainPass
  \/ Cancel

SpecSync == InitSync /\ [][NextSync]_vars

\* SpecPar: one request on the sync fast path, then the same request again
\* after the same handlers were registered anew, in the same order, one of
\* them without the synchronous option.
ParConfigs == {Plain, [Plain EXCEPT !.transformRequest = "throws"]}

InitPar == Init

FirstRun == prev.t = "none"

PUseRequest ==
  /\ nextUid < MaxUse
  /\ pc = "idle" /\ FirstRun
  /\ \E r \in BOOLEAN : Use("request", 0, r, Options(TRUE, "null"))

PUseResponse ==
  /\ nextUid < MaxUse
  /\ pc = "idle" /\ FirstRun
  /\ \E r \in BOOLEAN : Use("response", 0, r, NoOptions)

PRequest ==
  /\ pc = "idle" /\ FirstRun
  /\ handlers["request"] # <<>>
  /\ \E cfg \in ParConfigs : request(cfg, FALSE)
  /\ UNCHANGED prev

\* use() again of entries live[j..], entry k without options
RECURSIVE useAgain(_, _, _, _, _)
useAgain(hs, live, j, k, uid) ==
  IF j > Len(live) THEN hs
  ELSE useAgain(use(hs, uid + 1, live[j].fn, live[j].rejected,
                    IF j = k THEN NoOptions
                    ELSE Options(live[j].synchronous, live[j].runWhen)),
                live, j + 1, k, uid + 1)

\* interceptors.request.clear(), then use() of the same functions in the same
\* order, the k-th without {synchronous: true}; what the request ended with is
\* kept in prev
Remark ==
  /\ pc \in {"settled", "thrown"} /\ FirstRun
  /\ path = "sync"
  /\ LET live == forEach(handlers["request"])
     IN  \E k \in 1..Len(live) :
           /\ handlers' = [handlers EXCEPT !["request"] =
                             useAgain(clear(@), live, 1, k, nextUid)]
           /\ nextUid' = nextUid + Len(live)
           /\ issued' = issued \o [j \in 1..Len(live) |->
                                     [m |-> "request", index |-> j - 1]]
  /\ prev' = [t |-> "run", pc |-> pc, path |-> path, val |-> val, sent |-> sent,
              log |-> log, adapterOut |-> adapterOut, config |-> config,
              cancelled |-> cancelled, fns |-> [k \in 1..Len(reqChain) |-> reqChain[k].fn]]
  /\ pc' = "idle"
  /\ UNCHANGED <<ejected, path, reqChain, resChain, chain, i, val, config, headers,
                 cancelled, adapterOut, log, sent, adVars, hop, known>>

PRequestAgain ==
  /\ pc = "idle" /\ ~FirstRun
  /\ request(prev.config, prev.cancelled)
  /\ UNCHANGED prev

NextPar ==
  \/ PUseRequest
  \/ PUseResponse
  \/ PRequest
  \/ Remark
  \/ PRequestAgain
  \/ WalkReturn
  \/ WalkThrows
  \/ StageFulfilled
  \/ StageRejected
  \/ ChainPass
  \/ ChainDispatch
  \/ Settle
  \/ AdapterReaction

SpecPar == InitPar /\ [][NextPar]_vars

\* SpecLive: one request from registration to its end.  The jobs of a request
\* are run by the event loop once they are ready, and the adapter is taken to
\* settle its promise: weak fairness on the steps of the request.
LUseRequest ==
  /\ nextUid < MaxUse
  /\ pc = "idle"
  /\ \E r \in BOOLEAN, o \in {NoOptions, Options(TRUE, "null")} : Use("request", 0, r, o)

LUseResponse ==
  /\ nextUid < MaxUse
  /\ pc = "idle"
  /\ \E r \in BOOLEAN : Use("response", 0, r, NoOptions)

LRequest ==
  /\ pc = "idle"
  /\ \E cfg \in ParConfigs : request(cfg, FALSE)
  /\ UNCHANGED prev

Step ==
  \/ WalkReturn
  \/ WalkThrows
  \/ StageFulfilled
  \/ StageRejected
  \/ ChainPass
  \/ ChainDispatch
  \/ Settle
  \/ AdapterReaction

NextLive ==
  \/ LUseRequest
  \/ LUseResponse
  \/ LRequest
  \/ Step

SpecLive == Init /\ [][NextLive]_vars /\ WF_vars(Step)

\* SpecHeaders: one Header Container under set, get, has, delete, clear and
\* normalize, header names in two casings, with and without whitespace
\* around them.
Names ==
  {HName("x", "lower"), HName("x", "title"),
   Padded(HName("x", "lower")), Padded(HName("x", "title"))}

Values == {"a", "num1", "false", "undefined"}

Rewrites == {"undefined", "true", "false"}

BagEntries == {[key |-> n, value |-> v] : n \in Names, v \in {"a", "false"}}

RECURSIVE BagsOf(_)
BagsOf(n) ==
  IF n = 0 THEN {<<>>}
  ELSE BagsOf(n - 1) \cup
       {Append(b, e) : b \in {x \in BagsOf(n - 1) : Len(x) = n - 1},
                       e \in BagEntries}

Bags == {b \in BagsOf(MaxBag) : b # <<>> /\ \A j, k \in 1..Len(b) : j # k => b[j].key # b[k].key}

InitHeaders ==
  /\ InitManagers
  /\ InitRequest
  /\ InitAdapter
  /\ known = Browser

HeaderCall(after, call) ==
  /\ pc = "idle"
  /\ headers' = after
  /\ hop' = call
  /\ UNCHANGED <<mgrVars, pc, path, reqChain, resChain, chain, i, val, config,
                 cancelled, adapterOut, log, sent, prev, adVars, known>>

HSet ==
  \E n \in Names, v \in Values, rw \in Rewrites :
    HeaderCall(set(headers, n, v, rw), Call("set", n, v, rw, "this"))

HSetBag ==
  \E b \in Bags, rw \in Rewrites :
    HeaderCall(setBag(headers, b, rw), Call("setBag", b[1].key, b[1].value, rw, "this"))

HGet ==
  \E n \in Names :
    HeaderCall(headers, Call("get", n, "undefined", "undefined", getHeader(headers, n)))

HDelete ==
  \E n \in Names :
    HeaderCall(deleteHeader(headers, n),
               Call("delete", n, "undefined", "undefined",
                    IF deleteHeader(headers, n) # headers THEN "true" ELSE "false"))

HClear ==
  HeaderCall(clearHeaders(headers),
             Call("clear", NoName, "undefined", "undefined",
                  IF headers # <<>> THEN "true" ELSE "false"))

HNormalize ==
  \E f \in BOOLEAN :
    HeaderCall(normalize(headers, f),
               Call("normalize", NoName, "undefined", IF f THEN "true" ELSE "false", "this"))

NextHeaders ==
  \/ HSet
  \/ HSetBag
  \/ HGet
  \/ HDelete
  \/ HClear
  \/ HNormalize

SpecHeaders == InitHeaders /\ [][NextHeaders]_vars

\* SpecAdapter: getAdapter on every candidate list up to MaxCand, in every build.
Candidates ==
  {Callable("custom"), SNull, SFalse, Name("http"), Name("xhr"), Name("HTTP"),
   Name("bogus"), Name("constructor"), Name("__proto__")}

RECURSIVE Lists(_)
Lists(n) ==
  IF n = 0 THEN {<<>>}
  ELSE Lists(n - 1) \cup {Append(l, c) : l \in {x \in Lists(n - 1) : Len(x) = n - 1},
                                          c \in Candidates}

\* adapters = utils.isArray(adapters) ? adapters : [adapters]
toArray(arg) == arg.items

InitGetAdapter ==
  /\ InitManagers
  /\ InitRequest
  /\ known \in Builds
  /\ resolved = NoValue
  /\ hop = NoCall
  /\ \/ cands \in {[isArray |-> TRUE, items |-> l] : l \in Lists(MaxCand)}
     \/ cands \in {[isArray |-> FALSE, items |-> <<c>>] : c \in Candidates}

GetAdapter ==
  /\ resolved = NoValue
  /\ resolved' = getAdapter(known, toArray(cands))
  /\ UNCHANGED <<mgrVars, reqVars, prev, cands, hop, known>>

NextAdapter == GetAdapter

SpecAdapter == InitGetAdapter /\ [][NextAdapter]_vars

\* ------------------------------------------------------------------- claims
IsReq(ev) == ev.e \in {"request.fulfilled", "request.rejected"}

IsRes(ev) == ev.e \in {"response.fulfilled", "response.rejected"}

IsDispatch(ev) ==
  ev.e \in {"dispatchRequest", "transformRequest", "getAdapter", "adapter", "settle",
            "onAdapterResolution", "onAdapterRejection", "transformResponse"}

Has(name) == \E k \in 1..Len(log) : log[k].e = name

IsLive(h) == h # Null

Live(hs) == SelectSeq(hs, IsLive)

IsIncluded(h) == h.runWhen # "false"

Reverse(q) == [k \in 1..Len(q) |-> q[Len(q) + 1 - k]]

Uids(q) == {q[k].uid : k \in 1..Len(q)}

\* C1: in one request, on either path, every request-interceptor handler that
\* runs has run before dispatchRequest starts, and dispatchRequest is over
\* (the adapter settled, its reaction with the response transform ran) before
\* any response-interceptor handler runs.
C1_Theorem ==
  \A a, b \in 1..Len(log) :
    a < b =>
      /\ IsReq(log[b]) => ~IsDispatch(log[a]) /\ ~IsRes(log[a])
      /\ IsDispatch(log[b]) => ~IsRes(log[a])
      /\ (IsRes(log[b]) /\ log[a].e = "adapter") =>
           \E c \in (a + 1)..(b - 1) :
             log[c].e \in {"onAdapterResolution", "onAdapterRejection"}

C1_Witness ==
  /\ pc = "settled"
  /\ path = "sync"
  /\ \E a, b \in 1..Len(log) : IsReq(log[a]) /\ IsRes(log[b])
  /\ Has("transformResponse")

\* C2: the request-interceptor handlers run in reverse registration order (a
\* later use() runs earlier), the response-interceptor handlers in registration
\* order, and the handlers that run are those of the chains built.
C2_Theorem ==
  /\ \A a, b \in 1..Len(log) :
       (a < b /\ IsReq(log[a]) /\ IsReq(log[b])) =>
          \/ log[a].uid > log[b].uid
          \/ /\ log[a].uid = log[b].uid /\ b = a + 1
             /\ log[a].e = "request.fulfilled" /\ log[a].o = "throw"
             /\ log[b].e = "request.rejected"
  /\ \A a, b \in 1..Len(log) :
       (a < b /\ IsRes(log[a]) /\ IsRes(log[b])) => log[a].uid < log[b].uid
  /\ \A a, b \in 1..Len(reqChain) : a < b => reqChain[a].uid > reqChain[b].uid
  /\ \A a, b \in 1..Len(resChain) : a < b => resChain[a].uid < resChain[b].uid
  /\ \A a \in 1..Len(log) :
       /\ IsReq(log[a]) => log[a].uid \in Uids(reqChain)
       /\ IsRes(log[a]) => log[a].uid \in Uids(resChain)

C2_Witness ==
  /\ pc = "settled"
  /\ \E a, b \in 1..Len(log) :
       a < b /\ IsReq(log[a]) /\ IsReq(log[b]) /\ log[a].uid # log[b].uid

\* the handler the next step of the request calls first
NextHandler ==
  IF pc = "walk" THEN reqChain[i + 1] ELSE chain[i + 1].h

Chains == <<reqChain, resChain>>

\* C9: the chains of a request are those of the handlers live when request()
\* starts, whatever use, eject and clear did before; while the request is in
\* flight no use, eject or clear changes them, and the handler a step runs is
\* the one the chains hold at that place, still in the manager or not.
C9_Theorem ==
  [][ /\ (~InFlight /\ reqVars' # reqVars) =>
           /\ reqChain' = Reverse(SelectSeq(Live(handlers["request"]), IsIncluded))
           /\ resChain' = Live(handlers["response"])
      /\ InFlight => Chains' = Chains
      /\ (pc = "chain") =>
           chain \in {asyncChain(reqChain, resChain), Stages("response", resChain)}
      /\ (pc \in {"walk", "chain"} /\ Len(log') > Len(log)
            /\ (IsReq(log'[Len(log) + 1]) \/ IsRes(log'[Len(log) + 1]))) =>
           log'[Len(log) + 1].uid = NextHandler.uid
    ]_vars

C9_Witness ==
  /\ pc \in {"walk", "chain"}
  /\ log # <<>>
  /\ NextHandler # Null
  /\ \A m \in Managers : NextHandler.uid \notin Uids(Live(handlers[m]))

\* C7: a handler whose index was handed to eject is never visited by forEach
\* again; eject of the same index once more, and eject of an index no use()
\* returned, leave the manager as it is; forEach visits the live entries, in
\* registration order.
C7_Theorem ==
  LET hs == handlers["request"]
  IN  /\ \A u \in ejected : u \notin Uids(forEach(hs))
      /\ \A id \in 0..(MaxReg + 1) : eject(eject(hs, id), id) = eject(hs, id)
      /\ \A id \in 0..(MaxReg + 1) :
           (\A u \in 1..nextUid : issued[u].index # id) => eject(hs, id) = hs
      /\ Uids(forEach(hs)) = Uids(hs) \ {0}
      /\ \A a, b \in 1..Len(forEach(hs)) :
           a < b => forEach(hs)[a].uid < forEach(hs)[b].uid

C7_Witness ==
  LET hs == handlers["request"]
  IN  /\ ejected # {}
      /\ \E k \in 1..Len(hs) : hs[k] = Null
      /\ Len(forEach(hs)) >= 2

\* C8: the index a use() call returned removes, handed to eject at any later
\* time, the entry of that use() call or nothing.
C8_Claim ==
  \A u \in 1..nextUid :
    LET hs    == handlers[issued[u].m]
        after == eject(hs, issued[u].index)
    IN  \A k \in 1..Len(hs) : hs[k] # after[k] => hs[k].uid = u

\* positions of log
Pos == 1..Len(log)

At(name) == {k \in Pos : log[k].e = name}

\* cancellation was signalled before the step logged at place k
CancelBefore(k) == \E c \in At("cancel") : c < k

\* C4: when dispatchRequest is entered with the config's cancelToken already
\* signalled or its signal already aborted, it fails with a CanceledError and
\* runs neither the request transform nor getAdapter nor the adapter, and the
\* headers are those request() built.
C4_Theorem ==
  \A d \in At("dispatchRequest") :
    CancelBefore(d) =>
      /\ \A k \in Pos : k > d =>
           log[k].e \notin {"transformRequest", "getAdapter", "adapter", "settle"}
      /\ headers = initialHeaders(config)
      /\ val = Rejected(CanceledError)
      /\ pc = "settled"

C4_Witness ==
  /\ pc = "settled"
  /\ config.method = "post"
  /\ config.contentType = "undefined"
  /\ config.cancel = "signal"
  /\ config.transformRequest = "throws"
  /\ \E d \in At("dispatchRequest") : CancelBefore(d)

\* C5: cancellation signalled after the adapter was invoked and before its
\* promise fulfils makes dispatchRequest reject with a CanceledError; the
\* response is not handed on and the response transform is not applied.
C5_Theorem ==
  (/\ pc \in {"chain", "settled"}
   /\ adapterOut.t = "response"
   /\ \E a \in At("adapter"), c \in At("cancel"), s \in At("settle") : a < c /\ c < s
   /\ Has("onAdapterResolution"))
  => /\ val.st = "rej"
     /\ val.v = CanceledError
     /\ ~Has("transformResponse")

C5_Witness ==
  /\ pc = "settled"
  /\ adapterOut.t = "response"
  /\ \E a \in At("adapter"), c \in At("cancel"), s \in At("settle") : a < c /\ c < s
  /\ Has("onAdapterResolution")

\* C6: an adapter rejection that is not a cancellation, with cancellation
\* signalled by the time the rejection is handled, becomes a CanceledError;
\* an adapter rejection that is a cancellation is re-raised as it is, its
\* partial response untransformed.
C6_Theorem ==
  (/\ pc \in {"chain", "settled"}
   /\ adapterOut.t = "error"
   /\ Has("onAdapterRejection"))
  => /\ val.st = "rej"
     /\ (~isCancel(adapterOut) /\ (\E r \in At("onAdapterRejection") : CancelBefore(r)))
          => val.v = CanceledError
     /\ isCancel(adapterOut) =>
          /\ val.v = adapterOut
          /\ ~Has("transformResponse")

C6_Witness ==
  /\ pc = "settled"
  /\ adapterOut = TransportError("raw")
  /\ \E r \in At("onAdapterRejection"), s \in At("settle"), c \in At("cancel") :
       s < c /\ c < r

\* the built-in adapter a candidate name stands for in this build
BuiltIn(c) ==
  IF toLowerCase(c.s) = "http" THEN known.http
  ELSE IF toLowerCase(c.s) = "xhr" THEN known.xhr
  ELSE Undefined

\* a candidate that is a callable or names a built-in adapter the build has
Usable(c) == c.t = "function" \/ (c.t = "name" /\ BuiltIn(c).t = "function")

\* a candidate name that is not the name of a known adapter
Unknown(c) == c.t = "name" /\ toLowerCase(c.s) \notin {"http", "xhr"}

\* C10: getAdapter returns the first candidate that is a callable or names a
\* built-in adapter present in the build, passing over null, false and absent
\* built-ins before it; a name that is no known adapter, met before any usable
\* candidate, raises Unknown adapter '<name>', not the ERR_NOT_SUPPORT
\* aggregate, whatever comes after it.
C10_Claim ==
  resolved # NoValue =>
    LET items == toArray(cands)
    IN  \A k \in 1..Len(items) :
          (\A j \in 1..(k - 1) : ~Usable(items[j]) /\ ~Unknown(items[j])) =>
            /\ Usable(items[k]) =>
                 resolved = [t |-> "adapter",
                             adapter |-> IF items[k].t = "name" THEN BuiltIn(items[k])
                                                                ELSE items[k]]
            /\ Unknown(items[k]) =>
                 /\ resolved = unknownAdapter(items[k].s)
                 /\ resolved.code # "ERR_NOT_SUPPORT"

\* both requests of SpecPar are over: prev holds the one on the sync fast
\* path, the request variables the one on the async chain path
BothRan ==
  /\ prev.t = "run"
  /\ path = "async"
  /\ pc = "settled"

\* the same functions in the same order, the same config
SameRequest ==
  /\ prev.fns = [k \in 1..Len(reqChain) |-> reqChain[k].fn]
  /\ prev.config = config

\* a handler called in both requests did the same in both
SameHandlers ==
  \A a \in 1..Len(prev.log), b \in 1..Len(log) :
    (prev.log[a].fn # 0 /\ prev.log[a].fn = log[b].fn /\ prev.log[a].e = log[b].e)
      => prev.log[a].o = log[b].o

\* an adapter invoked in both requests settled the same way in both
SameAdapter ==
  (prev.adapterOut.t # "none" /\ adapterOut.t # "none")
    => /\ prev.adapterOut.t = adapterOut.t
       /\ prev.adapterOut.t = "error" => prev.adapterOut = adapterOut

SameSent == sent.t = prev.sent.t /\ (sent.t = "config" => sent = prev.sent)

SameOutcome == val.st = prev.val.st /\ val.v.t = prev.val.v.t /\ val.v = prev.val.v

\* no fulfilled handler of a request interceptor threw, and dispatchRequest
\* went as far as calling the adapter
NoThrowIn(lg) ==
  /\ \A k \in 1..Len(lg) : ~(lg[k].e = "request.fulfilled" /\ lg[k].o = "throw")
  /\ \E k \in 1..Len(lg) : lg[k].e = "adapter"

Refused(c) ==
  \/ c.t \in {"null", "false"}
  \/ c.t = "name" /\ toLowerCase(c.s) \in {"http", "xhr"} /\ BuiltIn(c).t \in {"null", "false"}

\* the reason the message gives for a refused candidate
WhyRefused(c) ==
  IF (IF c.t = "name" THEN BuiltIn(c) ELSE c).t = "false"
    THEN "is not supported by the environment"
    ELSE "is not available in the build"

\* C11: getAdapter returns a callable or raises, never a sentinel; when every
\* candidate was passed over it raises ERR_NOT_SUPPORT with one reason for
\* each candidate (false: not supported by the environment, null: not
\* available in the build), and with "no adapter specified" for an empty list.
C11_Claim ==
  resolved # NoValue =>
    LET items == toArray(cands)
    IN  /\ resolved.t = "adapter" => resolved.adapter.t = "function"
        /\ (\A k \in 1..Len(items) : Refused(items[k])) =>
             /\ resolved.t = "error"
             /\ resolved.code = "ERR_NOT_SUPPORT"
             /\ (items = <<>>) =>
                  resolved.message.text =
                    "There is no suitable adapter to dispatch the request as no adapter specified"
             /\ Len(resolved.message.reasons) = Len(items)
             /\ \A k \in 1..Len(items) :
                  resolved.message.reasons[k].why = WhyRefused(items[k])

\* the names that differ from header in letter case or surrounding whitespace only
SameName(header) == {n \in Names : normalizeHeader(n) = normalizeHeader(header)}

\* the call just made is set(N, v) with a single name
JustSet == hop'.op = "set"

\* C12: after set(N, v), v not undefined, on a container with no entry for N,
\* get(M) returns the stored v for every M that differs from N in letter case
\* only, and the stored key has the casing N was written in; a later set
\* with another casing leaves the stored keys as they are.
C12_Theorem ==
  [][ JustSet =>
        LET N == hop'.header
            v == hop'.value
        IN  /\ (v # "undefined" /\ findKey(headers, normalizeHeader(N)) = 0) =>
                 /\ \A M \in SameName(N) : getHeader(headers', M) = normalizeValue(v)
                 /\ keysOf(headers') = Append(keysOf(headers), trim(N))
            /\ findKey(headers, normalizeHeader(N)) # 0 =>
                 keysOf(headers') = keysOf(headers)
    ]_vars

C12_Witness ==
  /\ hop.op = "set"
  /\ hop.header = HName("x", "title")
  /\ hop.value = "num1"
  /\ headers = <<[key |-> HName("x", "title"), value |-> "1"]>>
  /\ getHeader(headers, HName("x", "lower")) = "1"

\* the entries of a container other than those of the name header
Others(self, header) ==
  SelectSeq(self, LAMBDA e : normalizeHeader(e.key) # normalizeHeader(header))

\* C13: set(name, value, overwrite) writes the value exactly when the name
\* has no prior entry, or overwrite is true, or overwrite is unset and the
\* prior value is not false; with overwrite = false a defined value stays.
C13_Theorem ==
  [][ JustSet =>
        LET N      == hop'.header
            prior  == hasHeader(headers, N)
            old    == getHeader(headers, N)
            writes == \/ ~prior
                      \/ hop'.rewrite = "true"
                      \/ hop'.rewrite = "undefined" /\ old # "false"
        IN  /\ writes => getHeader(headers', N) = normalizeValue(hop'.value)
            /\ ~writes => headers' = headers
            /\ (hop'.rewrite = "false" /\ prior) => getHeader(headers', N) = old
            /\ Others(headers', N) = Others(headers, N)
    ]_vars

C13_Witness ==
  /\ hop.op = "set"
  /\ hop.header = HName("x", "title")
  /\ hop.value = "a"
  /\ hop.rewrite = "undefined"
  /\ headers = <<[key |-> HName("x", "title"), value |-> "false"]>>

\* C14: after any sequence of set, delete, clear and normalize, set with a
\* bag or with names written with whitespace around them included, the
\* container holds at most one entry for each case-insensitive, trimmed name.
C14_Claim ==
  \A j, k \in 1..Len(headers) :
    j # k => normalizeHeader(headers[j].key) # normalizeHeader(headers[k].key)

\* C15: a request whose adapter settles and whose handlers return or throw
\* ends settled, with a response or an error delivered through the promise
\* request() returned, and nothing of the request runs after that.
C15_Claim ==
  /\ InFlight ~> (pc = "settled")
  /\ [][pc = "settled" => (pc' = "settled" /\ log' = log /\ val' = val)]_vars

\* the response-interceptor calls of the request, in the order they were made
ResEvents == SelectSeq(log, IsRes)

\* the state of the promise handed to the k-th response-interceptor call
\* after the adapter rejected
StateBefore(k) ==
  IF k = 1 THEN "rej"
  ELSE IF ResEvents[k - 1].o = "return" THEN "ful" ELSE "rej"

Deferred == pc \in {"chain", "adapter", "reaction"}

Count(name) == Cardinality({k \in 1..Len(log) : log[k].e = name})

\* getAdapter was called for the request and threw
ResolutionFailed ==
  /\ Has("getAdapter")
  /\ getAdapter(known, IF config.adapter = <<>> THEN defaultAdapter
                       ELSE config.adapter).t = "error"

Included == SelectSeq(Live(handlers["request"]), IsIncluded)

IsSynchronous(h) == h.synchronous

\* C18: request() takes the sync fast path exactly when every included
\* request interceptor declared synchronous = true (also when none is
\* included) and the async chain path otherwise; an interceptor whose runWhen
\* gives false is left out of the chain and of this decision.
C18_Theorem ==
  path # "none" =>
    /\ path = IF SelectSeq(Included, IsSynchronous) = Included THEN "sync" ELSE "async"
    /\ reqChain = Reverse(Included)

C18_Witness ==
  /\ path = "sync"
  /\ Len(reqChain) > 0
  /\ \E k \in 1..Len(handlers["request"]) :
       LET h == handlers["request"][k]
       IN  h # Null /\ h.runWhen = "false" /\ ~h.synchronous

IsReturn(ev) == ev.e = "request.fulfilled" /\ ev.o = "return"

\* the config after the fulfilled handlers that returned among the first n
\* entries of log
ConfigAfter(n) ==
  LET good == SelectSeq(SubSeq(log, 1, n), IsReturn)
  IN  Cfg([j \in 1..Len(good) |-> <<"f", good[j].fn>>])

\* C19: on the sync fast path, when the fulfilled handler of a request
\* interceptor raises, the rejection handler of that same interceptor is
\* called with the error, no later request interceptor runs, what the
\* rejection handler returns is discarded, and dispatch is then invoked with
\* the config of the last fulfilled handler that returned.
C19_Claim ==
  path = "sync" =>
    \A k \in 1..Len(log) :
      (log[k].e = "request.fulfilled" /\ log[k].o = "throw") =>
        /\ k < Len(log)
        /\ log[k + 1].e = "request.rejected" /\ log[k + 1].uid = log[k].uid
        /\ \A j \in (k + 2)..Len(log) : ~IsReq(log[j])
        /\ Has("dispatchRequest")
        /\ sent = ConfigAfter(k)

\* C20: on the sync fast path, when a request interceptor's fulfilled handler
\* raises and its rejection handler does not raise again, or none was
\* registered, no exception is thrown out of request(): request() throws only
\* what a rejection handler raised.
C20_Claim ==
  pc = "thrown" =>
    /\ Len(log) > 0
    /\ log[Len(log)].e = "request.rejected" /\ log[Len(log)].o = "throw"

\* dispatchRequest was entered and threw before it called the adapter
DispatchThrew == Has("dispatchRequest") /\ ~Has("adapter")

\* the error dispatchRequest throws, by the last thing it ran
ThrownBy(name) ==
  IF name = "dispatchRequest" THEN "canceled"
  ELSE IF name = "transformRequest" THEN "transform"
  ELSE "adapter"

\* C21: on the sync fast path, when dispatchRequest throws synchronously
\* (cancellation at the pre-check, request transform failure, adapter
\* resolution failure), request() returns at once a promise rejected with that
\* error, the adapter is not invoked and no response-interceptor handler is
\* chained on that promise or run for it.
C21_Theorem ==
  (path = "sync" /\ DispatchThrew) =>
    /\ pc = "settled"
    /\ val.st = "rej" /\ val.v.t = "error"
    /\ val.v.kind = ThrownBy(log[Len(log)].e)
    /\ chain = <<>>
    /\ \A k \in 1..Len(log) : ~IsRes(log[k]) /\ log[k].e # "settle"
    /\ adapterOut = NoValue

C21_Witness ==
  /\ path = "sync" /\ DispatchThrew
  /\ Len(resChain) = 1 /\ resChain[1].rejected
  /\ Len(reqChain) = 1
  /\ val.st = "rej" /\ val.v.kind = "transform"

FormType == "application/x-www-form-urlencoded"

\* dispatchRequest went past its Content-Type step
PastContentType == Has("getAdapter")

\* C22: in dispatchRequest, when method is post, put or patch, Content-Type
\* becomes application/x-www-form-urlencoded only if the container has no
\* defined Content-Type entry; a string value and a false suppression stay as
\* they are; for any other method the container is left as it was.
C22_Theorem ==
  LET before == initialHeaders(config)
      old    == getHeader(before, ContentType)
  IN  /\ ~PastContentType => headers = before
      /\ PastContentType =>
            /\ config.method \notin {"post", "put", "patch"} => headers = before
            /\ config.method \in {"post", "put", "patch"} =>
                  /\ getHeader(headers, ContentType) =
                        IF old = "undefined" THEN FormType ELSE old
                  /\ old # "undefined" => headers = before

C22_Witness ==
  /\ PastContentType
  /\ config.method = "post" /\ config.contentType = "false"
  /\ getHeader(headers, ContentType) = "false"

IsSentinel(c) == c.t \in {"null", "false"}

\* what the loop of getAdapter holds in adapter for candidate c
Found(c) == IF c.t = "name" THEN knownAdapter(known, toLowerCase(c.s)) ELSE c

\* a candidate the loop of getAdapter ends on: by the break or by the throw
Stops(c) == Found(c) = Undefined \/ Truthy(Found(c))

\* what getAdapter ends with on a candidate that stops it
EndsWith(c) ==
  IF Found(c) = Undefined THEN unknownAdapter(c.s)
  ELSE [t |-> "adapter", adapter |-> Found(c)]

\* the key rejectedReasons gets for the k-th candidate when it has no name
Hash(k) ==
  IF k = 1 THEN "#0" ELSE IF k = 2 THEN "#1" ELSE IF k = 3 THEN "#2"
  ELSE IF k = 4 THEN "#3" ELSE "#n"

\* C23 as stated: in getAdapter a candidate that is null or false is accepted
\* as already resolved and stops the walk; the candidates after it are not
\* examined and the call ends with the "no suitable adapter" error.
C23_Claim ==
  resolved # NoValue =>
    LET items == toArray(cands)
    IN  \A k \in 1..Len(items) :
          (IsSentinel(items[k]) /\ \A j \in 1..(k - 1) : ~Stops(items[j])) =>
            /\ resolved.t = "error"
            /\ resolved.code = "ERR_NOT_SUPPORT"

\* C23 amended: in getAdapter a candidate that is null or false is not looked
\* up by name and does not stop the walk: it is recorded as refused under
\* '#' and its index, and the candidates after it are examined; the call ends
\* with the first later candidate that yields an adapter or is an unknown
\* name, and with the "no suitable adapter" error, the sentinel among its
\* reasons, when there is none.
C23_Theorem ==
  resolved # NoValue =>
    LET items == toArray(cands)
    IN  \A k \in 1..Len(items) :
          (IsSentinel(items[k]) /\ \A j \in 1..(k - 1) : ~Stops(items[j])) =>
            /\ \A m \in (k + 1)..Len(items) :
                 (Stops(items[m]) /\ \A j \in (k + 1)..(m - 1) : ~Stops(items[j])) =>
                   resolved = EndsWith(items[m])
            /\ (\A m \in (k + 1)..Len(items) : ~Stops(items[m])) =>
                 /\ resolved.t = "error"
                 /\ resolved.code = "ERR_NOT_SUPPORT"
                 /\ \E r \in 1..Len(resolved.message.reasons) :
                      resolved.message.reasons[r] =
                        [id |-> Hash(k), why |-> WhyRefused(items[k])]

C23_Witness ==
  /\ known = Browser
  /\ Len(toArray(cands)) = 2
  /\ toArray(cands)[1] = SFalse /\ toArray(cands)[2] = Name("xhr")
  /\ resolved = [t |-> "adapter", adapter |-> Callable("xhr")]

\* a handler of the request threw
Threw(ev) == ev.o = "throw"

\* C24: for every request(), on either path and whatever the interceptor
\* handlers do, dispatchRequest resolves the adapter at most once and invokes
\* the resolved adapter at most once, and the adapter settles at most once.
C24_Theorem ==
  /\ Count("dispatchRequest") <= 1
  /\ Count("getAdapter") <= 1
  /\ Count("adapter") <= 1
  /\ Count("settle") <= Count("adapter")
  /\ Count("adapter") <= Count("getAdapter")

C24_Witness ==
  /\ pc = "settled" /\ path = "async"
  /\ Count("getAdapter") = 1 /\ Count("adapter") = 1
  /\ \E a \in 1..Len(log) : IsReq(log[a]) /\ Threw(log[a])

\* the request-interceptor calls of the request, in the order they were made
ReqEvents == SelectSeq(log, IsReq)

\* the request-interceptor stages of the chain are over and left a rejection:
\* the last handler of them that was called threw
RequestRejected ==
  /\ i >= Len(reqChain)
  /\ Len(ReqEvents) > 0
  /\ ReqEvents[Len(ReqEvents)].o = "throw"

\* C25: on the async chain path, when a request-interceptor stage rejects and
\* no later request-interceptor rejection handler turns the rejection into a
\* value, dispatchRequest is never entered and the adapter never invoked, the
\* rejection goes on to the rejection handlers of the response interceptors,
\* and the rejection handler paired with the fulfilled handler that raised is
\* not called with that error.
C25_Theorem ==
  path = "async" =>
    /\ \A a, b \in 1..Len(log) :
         (a < b /\ log[a].e = "request.fulfilled" /\ log[a].o = "throw") =>
           ~(log[b].e = "request.rejected" /\ log[b].uid = log[a].uid)
    /\ RequestRejected =>
         LET last == ReqEvents[Len(ReqEvents)]
         IN  /\ ~Has("dispatchRequest") /\ ~Has("adapter")
             /\ sent = NoValue /\ adapterOut = NoValue
             /\ ResEvents # <<>> =>
                  /\ ResEvents[1].e = "response.rejected"
                  /\ \A p \in 1..Len(resChain) :
                       resChain[p].uid < ResEvents[1].uid => ~resChain[p].rejected
             /\ (pc = "settled" /\ ResEvents = <<>>) =>
                  /\ val = Rejected(Thrown(<<IF last.e = "request.fulfilled" THEN "f" ELSE "r",
                                             last.fn>>))
                  /\ \A p \in 1..Len(resChain) : ~resChain[p].rejected

C25_Witness ==
  /\ path = "async" /\ pc = "settled"
  /\ RequestRejected
  /\ reqChain[1].rejected
  /\ ReqEvents[Len(ReqEvents)].e = "request.fulfilled"
  /\ Len(ResEvents) = 1 /\ ResEvents[1].e = "response.rejected"

=============================================================================
